---------------------------- MODULE Spec2Model ----------------------------
(***************************************************************************)
(* Model of CellRegObj (src/CellReg.py): one compilation of the output of  *)
(* the CellReg registration tool found in a target directory into three    *)
(* pickled artifacts (match map, footprints, centroids).                   *)
(*                                                                         *)
(* Arrays are nested sequences, indexed from 1 (numpy indexes from 0): a   *)
(* 2-D array a of shape (R, C) is a[r][c], a 3-D one of shape (A, B, C) is  *)
(* a[i][j][k].  Every modelled array has all its dimensions >= 1.          *)
(***************************************************************************)
EXTENDS Integers, Sequences, FiniteSets

VARIABLES
    dir,         \* names of the files put in the target directory (self.path)
    container,   \* contents of the cellRegistered*.mat file of the directory
    out,         \* the three output artifacts beside it: name -> file content
    pc,          \* position of the run inside CellRegObj.__init__
    file,        \* self.file: the h5py handle of this run ("none" | "open" | "closed")
    match_map,   \* local of compile_cellreg_data
    centroids,   \* local of compile_cellreg_data
    footprints,  \* local of compile_cellreg_data
    err,         \* the exception that ended the run, if any
    run,         \* number of the current run (one CellRegObj(path) each)
    leaked,      \* handles of earlier runs that are still open
    log,         \* history: the phases this run went through, in order
    pre,         \* history: the artifacts as they were when this run started
    prevOk       \* history: the previous run ended normally

vars == <<dir, container, out, pc, file, match_map, centroids, footprints,
          err, run, leaked, log, pre, prevOk>>

-----------------------------------------------------------------------------
(* Bounds of the model.                                                    *)

MaxSessions == 2     \* sessions S of a container
MaxEntries == 4      \* entries S * C of a raw index map
MaxLocal == 2        \* cells of one session (local_count)
MaxVoxels == 4       \* elements H * W * N of an enumerated raw footprint array
MaxRuns == 2         \* runs on the same directory
FovH == 1            \* field-of-view rows of the generated footprint stacks
FovW == 2            \* field-of-view columns of the generated footprint stacks

(* Significand precision of numpy.float32, in bits.                        *)
F32Precision == 24

RECURSIVE Pow2(_)
Pow2(n) == IF n = 0 THEN 1 ELSE 2 * Pow2(n - 1)


-----------------------------------------------------------------------------
(* File names and glob.glob(os.path.join(self.path, 'cellRegistered*.mat')). *)
(* A name is the sequence of its parts, cut where the pattern cuts: what   *)
(* the literal 'cellRegistered' could match, the rest of the stem, the     *)
(* extension.                                                              *)

(* fnmatch of one name against 'cellRegistered*.mat' (POSIX: case matters): *)
(* the literal prefix, any run of characters, the literal suffix.          *)
Matches(name) ==
    /\ Len(name) >= 2
    /\ name[1] = "cellRegistered"
    /\ name[Len(name)] = ".mat"

Glob(listing) == {n \in listing : Matches(n)}

(* The two assertions of read_cellreg_output on len(cellreg_file)          *)
(* (`len(...) is 1` holds exactly for the length 1 in CPython).            *)
CountOk_NoUpper(n) == n > 0
CountOk(n) == n > 0 /\ n = 1

(* Output file names of compile_cellreg_data.                              *)
filename == <<"CellReg", "Results", ".pkl">>
filename_footprints == <<"CellReg", "Footprints", ".pkl">>
filename_centroids == <<"CellReg", "Centroids", ".pkl">>

(* The three artifacts, and the order of their `with open(...)` blocks.    *)
Artifacts == {"match_map", "footprints", "centroids"}
WriteOrder_CentroidsFirst == <<"match_map", "centroids", "footprints">>
WriteOrder == <<"match_map", "footprints", "centroids">>

FileOf(a) ==
    CASE a = "match_map" -> filename
      [] a = "footprints" -> filename_footprints
      [] a = "centroids" -> filename_centroids

(* Names the directory may hold besides the outputs.                       *)
CellRegA == <<"cellRegistered", "_a", ".mat">>
CellRegB == <<"cellRegistered", "_b", ".mat">>
OtherMat == <<"footprints", "_1", ".mat">>
InputNames == {CellRegA, CellRegB, OtherMat}

(* A file on disk: absent, or a sequence of complete pickle frames,        *)
(* possibly followed by a partial one (a dump that failed midway).         *)
Absent == [exists |-> FALSE, partial |-> FALSE, frames |-> <<>>]
Stale == [exists |-> TRUE, partial |-> FALSE,
          frames |-> <<[protocol |-> 2, obj |-> <<>>]>>]

(* pickle.dump(obj, output, protocol=4)                                    *)
Pickle(obj) == [protocol |-> 4, obj |-> obj]

(* open(name, 'wb') followed by a dump that completes: the old content is  *)
(* truncated away and replaced.                                            *)
WriteFile_Append(old, obj) ==
    [exists |-> TRUE, partial |-> FALSE, frames |-> Append(old.frames, Pickle(obj))]
WriteFile(old, obj) ==
    [exists |-> TRUE, partial |-> FALSE, frames |-> <<Pickle(obj)>>]

(* open(name, 'wb') succeeded and the dump failed midway.                  *)
Truncated == [exists |-> TRUE, partial |-> TRUE, frames |-> <<>>]

(* What os.listdir of the target directory shows.                          *)
Listing == dir \cup {FileOf(a) : a \in {x \in Artifacts : out[x].exists}}

-----------------------------------------------------------------------------
(* numpy.                                                                  *)

F64 == [kind |-> "f", bits |-> 64]
I8 == [kind |-> "i", bits |-> 8]
I16 == [kind |-> "i", bits |-> 16]
U8 == [kind |-> "u", bits |-> 8]
U16 == [kind |-> "u", bits |-> 16]
DTypes == {F64, I8, I16, U8, U16}

(* ndarray.T of a 2-D array.                                               *)
Transpose2(a) ==
    [c \in 1..Len(a[1]) |-> [r \in 1..Len(a) |-> a[r][c]]]

(* numpy.transpose(a, (2, 0, 1)) of a 3-D array: result[k][i][j] = a[i][j][k]. *)
Transpose201_As210(a) ==
    [k \in 1..Len(a[1][1]) |->
        [j \in 1..Len(a[1]) |-> [i \in 1..Len(a) |-> a[i][j][k]]]]
Transpose201(a) ==
    [k \in 1..Len(a[1][1]) |->
        [i \in 1..Len(a) |-> [j \in 1..Len(a[1]) |-> a[i][j][k]]]]

(* `array - 1`: the subtraction is done in the array's own dtype (the       *)
(* Python scalar 1 does not widen it), so integer types wrap.              *)
Sub1_None(v, dt) == v
Sub1(v, dt) ==
    CASE dt.kind = "f" -> v - 1
      [] dt.kind = "u" -> (v - 1) % Pow2(dt.bits)
      [] dt.kind = "i" ->
            ((v - 1 + Pow2(dt.bits - 1)) % Pow2(dt.bits)) - Pow2(dt.bits - 1)

(* `.astype(int)`: conversion to the platform integer (32 or 64 bits).     *)
(* Every value of the dtypes above (at most 16 bits, or an integer-valued  *)
(* float64 of small magnitude) is representable, so the value is kept.     *)
AsTypeInt(v) == v

(* numpy.float32(x) of a non-negative integer-valued float64 x < 2^26:     *)
(* round to nearest with F32Precision significant bits, ties to even.      *)
RoundTo(x, step) ==
    LET q == x \div step
        r == x % step
    IN  IF 2 * r < step THEN q * step
        ELSE IF 2 * r > step THEN (q + 1) * step
        ELSE IF q % 2 = 0 THEN q * step ELSE (q + 1) * step

Float32(x) ==
    IF x < Pow2(F32Precision) THEN x
    ELSE IF x < Pow2(F32Precision + 1) THEN RoundTo(x, 2)
    ELSE RoundTo(x, 4)

-----------------------------------------------------------------------------
(* The container (an HDF5 .mat file as h5py shows it): whether h5py can     *)
(* open it, the fields present, the raw index map and its dtype, the two   *)
(* (1 x S) datasets of object references, and the objects the references   *)
(* resolve to.                                                             *)

FieldNames == {"cell_registered_struct", "cell_to_index_map",
               "spatial_footprints_corrected", "centroid_locations_corrected"}

(* self.file[idx] succeeds.                                                *)
CanDeref(c, idx) == idx \in DOMAIN c.objects

(* `for idx in footprints_reference` / `for idx in centroids_reference`:   *)
(* the references are visited in the order the dataset holds them.         *)
IterRefs_Reversed(refs) == [k \in 1..Len(refs) |-> refs[Len(refs) + 1 - k]]
IterRefs(refs) == refs

(* process_registration_map: transpose, subtract 1, astype(int).           *)
ProcessRegistrationMapOf(c) ==
    LET cell_to_index_map == Transpose2(c.cell_to_index_map)
    IN  [i \in 1..Len(cell_to_index_map) |->
            [s \in 1..Len(cell_to_index_map[1]) |->
                AsTypeInt(Sub1(cell_to_index_map[i][s], c.dtype))]]

(* np.float32(array), element by element.                                  *)
Float32Array(a) ==
    [i \in 1..Len(a) |-> [j \in 1..Len(a[1]) |->
        [k \in 1..Len(a[1][1]) |-> Float32(a[i][j][k])]]]

(* process_spatial_footprints: `.value[0]` is the row of references.       *)
ProcessSpatialFootprintsOf(c) ==
    LET footprints_reference == IterRefs(c.spatial_footprints_corrected[1])
    IN  [n \in 1..Len(footprints_reference) |->
            Float32Array(Transpose201(c.objects[footprints_reference[n]]))]

(* process_centroids.                                                      *)
ProcessCentroidsOf(c) ==
    LET centroids_reference == IterRefs(c.centroid_locations_corrected[1])
    IN  [n \in 1..Len(centroids_reference) |->
            Transpose2(c.objects[centroids_reference[n]])]

-----------------------------------------------------------------------------
(* Containers the model runs on.                                           *)

(* Largest raw index: one more than the largest local count, so that a raw *)
(* map can name a cell its session does not have.                          *)
MaxIdx == MaxLocal + 1

MapShapes ==
    {sh \in (1..MaxSessions) \X (1..MaxEntries) : sh[1] * sh[2] <= MaxEntries}

RawMaps(sh) == [1..sh[1] -> [1..sh[2] -> 0..MaxIdx]]

(* The raw index map of the specification's scenario (2 sessions x 3 cells). *)
ScenarioMap == <<<<1, 0, 2>>, <<2, 1, 0>>>>

(* A raw (FovH, FovW, n) footprint stack and a raw (2, n) centroid array   *)
(* whose elements name the object and the position they sit at.            *)
FpObject(h, n) ==
    [i \in 1..FovH |-> [j \in 1..FovW |-> [k \in 1..n |->
        ((h * 10 + i) * 10 + j) * 10 + k]]]
CtObject(h, n) ==
    [r \in 1..2 |-> [k \in 1..n |-> (h * 10 + r) * 10 + k]]

Orders(S) == {[k \in 1..S |-> k], [k \in 1..S |-> S + 1 - k]}

(* A well-formed container of S = Len(map) sessions: object h <= S is a    *)
(* footprint stack of ns[h] cells, object S + h the centroids of the same  *)
(* session; the two reference rows list the sessions in the order `ord`.   *)
MkContainer(map, dt, ns, ord) ==
    LET S == Len(map)
    IN  [readable |-> TRUE,
         fields |-> FieldNames,
         dtype |-> dt,
         cell_to_index_map |-> map,
         spatial_footprints_corrected |-> <<[k \in 1..S |-> ord[k]]>>,
         centroid_locations_corrected |-> <<[k \in 1..S |-> S + ord[k]]>>,
         objects |-> [h \in 1..(2 * S) |->
                        IF h <= S THEN FpObject(h, ns[h])
                        ELSE CtObject(h, ns[h - S])]]

(* Raw footprint stacks of every shape with at most MaxVoxels elements;    *)
(* the values include doubles that float32 cannot represent.               *)
FpValues == {0, 1, Pow2(F32Precision) + 1, Pow2(F32Precision) + 3}

FpShapes ==
    {sh \in (1..MaxVoxels) \X (1..MaxVoxels) \X (1..MaxVoxels) :
        sh[1] * sh[2] * sh[3] <= MaxVoxels}

FpArrays(sh) == [1..sh[1] -> [1..sh[2] -> [1..sh[3] -> FpValues]]]

(* A one-session container around the raw footprint stack a.               *)
FpContainer(a) ==
    [MkContainer(<<<<1>>>>, F64, <<1>>, <<1>>) EXCEPT !.objects[1] = a]

(* Containers of the whole-run specification: the scenario, well formed or *)
(* with one defect (not an HDF5 file, a field missing, a dangling reference). *)
LifecycleData ==
    {MkContainer(ScenarioMap, dt, [h \in 1..2 |-> MaxLocal], ord) :
        dt \in {F64, U8}, ord \in Orders(2)}

Defects(c) ==
    {c, [c EXCEPT !.readable = FALSE]}
    \cup {[c EXCEPT !.fields = FieldNames \ {f}] : f \in FieldNames}
    \cup {[c EXCEPT !.objects = [h \in (DOMAIN c.objects) \ {g} |-> c.objects[h]]] :
             g \in DOMAIN c.objects}

LifecycleContainers == UNION {Defects(c) : c \in LifecycleData}

-----------------------------------------------------------------------------
(* The run.                                                                *)

NoErr == [exc |-> "none", phase |-> "none"]
Ev(e) == [ev |-> e, what |-> "-"]
EvWrite(name) == [ev |-> "write", what |-> name]

NoOutputs == [a \in Artifacts |-> Absent]
StaleOutputs == [a \in Artifacts |-> Stale]

(* An exception leaves __init__: nothing catches it and nothing closes     *)
(* self.file on the way out.                                               *)
Raise(exc, phase) ==
    /\ pc' = "failed"
    /\ err' = [exc |-> exc, phase |-> phase]

(* read_cellreg_output: glob, the two assertions, h5py.File, the struct.   *)
ReadCellregOutput ==
    /\ pc = "start"
    /\ LET cellreg_file == Glob(Listing)
       IN  IF ~CountOk(Cardinality(cellreg_file))
           THEN /\ Raise("AssertionError", "locate")
                /\ UNCHANGED <<file, log>>
           ELSE IF ~container.readable
           THEN /\ Raise("OSError", "open")
                /\ UNCHANGED <<file, log>>
           ELSE IF "cell_registered_struct" \notin container.fields
           THEN /\ Raise("KeyError", "open")
                /\ file' = "open"
                /\ log' = Append(log, Ev("open"))
           ELSE /\ pc' = "opened"
                /\ file' = "open"
                /\ log' = Append(log, Ev("open"))
                /\ UNCHANGED err
    /\ UNCHANGED <<dir, container, out, match_map, centroids, footprints,
                   run, leaked, pre, prevOk>>

(* match_map = self.process_registration_map()                             *)
ProcessRegistrationMap ==
    /\ pc = "opened"
    /\ IF "cell_to_index_map" \notin container.fields
       THEN /\ Raise("KeyError", "match_map")
            /\ UNCHANGED <<match_map, log>>
       ELSE /\ match_map' = ProcessRegistrationMapOf(container)
            /\ pc' = "mapped"
            /\ log' = Append(log, Ev("match_map"))
            /\ UNCHANGED err
    /\ UNCHANGED <<dir, container, out, file, centroids, footprints,
                   run, leaked, pre, prevOk>>

(* centroids = self.process_centroids()                                    *)
ProcessCentroids ==
    /\ pc = "mapped"
    /\ IF "centroid_locations_corrected" \notin container.fields
       THEN /\ Raise("KeyError", "centroids")
            /\ UNCHANGED <<centroids, log>>
       ELSE IF \E n \in DOMAIN container.centroid_locations_corrected[1] :
                  ~CanDeref(container, container.centroid_locations_corrected[1][n])
       THEN /\ Raise("ValueError", "centroids")
            /\ UNCHANGED <<centroids, log>>
       ELSE /\ centroids' = ProcessCentroidsOf(container)
            /\ pc' = "centroids"
            /\ log' = Append(log, Ev("centroids"))
            /\ UNCHANGED err
    /\ UNCHANGED <<dir, container, out, file, match_map, footprints,
                   run, leaked, pre, prevOk>>

(* footprints = self.process_spatial_footprints()                          *)
ProcessSpatialFootprints ==
    /\ pc = "centroids"
    /\ IF "spatial_footprints_corrected" \notin container.fields
       THEN /\ Raise("KeyError", "footprints")
            /\ UNCHANGED <<footprints, log>>
       ELSE IF \E n \in DOMAIN container.spatial_footprints_corrected[1] :
                  ~CanDeref(container, container.spatial_footprints_corrected[1][n])
       THEN /\ Raise("ValueError", "footprints")
            /\ UNCHANGED <<footprints, log>>
       ELSE /\ footprints' = ProcessSpatialFootprintsOf(container)
            /\ pc' = "footprints"
            /\ log' = Append(log, Ev("footprints"))
            /\ UNCHANGED err
    /\ UNCHANGED <<dir, container, out, file, match_map, centroids,
                   run, leaked, pre, prevOk>>

(* The object each output file receives.                                   *)
ObjOf(a) ==
    CASE a = "match_map" -> match_map
      [] a = "footprints" -> footprints
      [] a = "centroids" -> centroids

(* One `with open(FileOf(name), 'wb') as output: pickle.dump(obj, output, 4)`. *)
(* The environment decides: the block completes, open() fails (the file is *)
(* left as it was), or the dump fails after open() truncated the file.     *)
Dump(name, here, next) ==
    /\ pc = here
    /\ \E outcome \in {"ok", "open_fails", "dump_fails"} :
          IF outcome = "ok"
          THEN /\ out' = [out EXCEPT ![name] = WriteFile(@, ObjOf(name))]
               /\ pc' = next
               /\ log' = Append(log, EvWrite(name))
               /\ UNCHANGED err
          ELSE IF outcome = "open_fails"
          THEN /\ Raise("OSError", "write")
               /\ UNCHANGED <<out, log>>
          ELSE /\ Raise("OSError", "write")
               /\ out' = [out EXCEPT ![name] = Truncated]
               /\ UNCHANGED log
    /\ UNCHANGED <<dir, container, file, match_map, centroids, footprints,
                   run, leaked, pre, prevOk>>

DumpFirst == Dump(WriteOrder[1], "footprints", "dumped1")
DumpSecond == Dump(WriteOrder[2], "dumped1", "dumped2")
DumpThird == Dump(WriteOrder[3], "dumped2", "done")

(* The same directory is compiled again: a new CellRegObj(path).  No code  *)
(* closes the handle of the run before: if it was opened it is still open, *)
(* unless the garbage collector has reclaimed the object that held it.     *)
Rerun ==
    /\ pc \in {"done", "failed"}
    /\ run < MaxRuns
    /\ run' = run + 1
    /\ pc' = "start"
    /\ \E collected \in BOOLEAN :
          leaked' = leaked + (IF file = "open" /\ ~collected THEN 1 ELSE 0)
    /\ file' = "none"
    /\ match_map' = <<>>
    /\ centroids' = <<>>
    /\ footprints' = <<>>
    /\ err' = NoErr
    /\ log' = <<>>
    /\ pre' = out
    /\ prevOk' = (pc = "done")
    /\ UNCHANGED <<dir, container, out>>

-----------------------------------------------------------------------------
(* Specifications.                                                         *)

(* Whole runs: any mix of files in the directory, a well-formed or         *)
(* defective container, outputs of an earlier use present or not.          *)
Init ==
    /\ dir \in SUBSET InputNames
    /\ container \in LifecycleContainers
    /\ out \in {NoOutputs, StaleOutputs}
    /\ pc = "start"
    /\ file = "none"
    /\ match_map = <<>>
    /\ centroids = <<>>
    /\ footprints = <<>>
    /\ err = NoErr
    /\ run = 1
    /\ leaked = 0
    /\ log = <<>>
    /\ pre = out
    /\ prevOk = FALSE

Next ==
    \/ ReadCellregOutput
    \/ ProcessRegistrationMap
    \/ ProcessCentroids
    \/ ProcessSpatialFootprints
    \/ DumpFirst
    \/ DumpSecond
    \/ DumpThird
    \/ Rerun

Spec == Init /\ [][Next]_vars

(* The three builders on a container that read_cellreg_output has just     *)
(* opened (the only candidate of its directory).                           *)
Opened(c) ==
    /\ dir = {CellRegA}
    /\ container = c
    /\ out = NoOutputs
    /\ pc = "opened"
    /\ file = "open"
    /\ match_map = <<>>
    /\ centroids = <<>>
    /\ footprints = <<>>
    /\ err = NoErr
    /\ run = 1
    /\ leaked = 0
    /\ log = <<Ev("open")>>
    /\ pre = out
    /\ prevOk = FALSE

NextBuild ==
    \/ ProcessRegistrationMap
    \/ ProcessCentroids
    \/ ProcessSpatialFootprints

(* Raw maps of every shape and dtype (and the scenario's), over sessions   *)
(* of MaxLocal cells each.                                                 *)
InitMap ==
    \E sh \in MapShapes : \E m \in RawMaps(sh) \cup {ScenarioMap} : \E dt \in DTypes :
        Opened(MkContainer(m, dt, [h \in 1..Len(m) |-> MaxLocal],
                           [k \in 1..Len(m) |-> k]))
SpecMap == InitMap /\ [][NextBuild]_vars

(* Raw maps, local counts and session orders together.                     *)
InitReg ==
    \E dt \in {F64, U8} : \E sh \in MapShapes : \E m \in RawMaps(sh) :
        \E ns \in [1..sh[1] -> 1..MaxLocal] : \E ord \in Orders(sh[1]) :
            Opened(MkContainer(m, dt, ns, ord))
SpecReg == InitReg /\ [][NextBuild]_vars

(* The raw (50, 60, 12) footprint stack of the specification's scenario.   *)
ScenarioStack ==
    [i \in 1..50 |-> [j \in 1..60 |-> [k \in 1..12 |-> ((i * 60) + j) * 12 + k]]]

(* Raw footprint stacks of every shape and content, and the scenario's.    *)
InitFp ==
    \E sh \in FpShapes : \E a \in FpArrays(sh) \cup {ScenarioStack} :
        Opened(FpContainer(a))
SpecFp == InitFp /\ [][NextBuild]_vars

-----------------------------------------------------------------------------
(* Properties.                                                             *)

Raw == container.cell_to_index_map
NumSessions == Len(Raw)
NumCells == Len(Raw[1])
FpRefs == container.spatial_footprints_corrected[1]
CtRefs == container.centroid_locations_corrected[1]
Built == pc = "footprints"
Abs(x) == IF x < 0 THEN -x ELSE x

(* C1: for every raw index map (S x C) with non-negative entries the built *)
(* match map has shape (C x S) and entry [i][s] = raw[s][i] - 1; the       *)
(* scenario map [[1,0,2],[2,1,0]] gives [[0,1],[-1,0],[1,-1]].             *)
C1_TransposedMinusOne ==
    match_map # <<>> =>
        /\ Len(match_map) = NumCells
        /\ \A i \in 1..NumCells :
              /\ Len(match_map[i]) = NumSessions
              /\ \A s \in 1..NumSessions : match_map[i][s] = Raw[s][i] - 1
        /\ (Raw = ScenarioMap =>
               match_map = <<<<0, 1>>, <<-1, 0>>, <<1, -1>>>>)

(* C10: for a raw map stored in any integer type, unsigned w-bit types     *)
(* included, a raw 0 yields exactly -1 (never 2^w - 1) and a raw v > 0     *)
(* yields v - 1.                                                           *)
C10_SignedCorrection ==
    (match_map # <<>> /\ container.dtype.kind \in {"i", "u"}) =>
        \A s \in 1..NumSessions : \A i \in 1..NumCells :
            IF Raw[s][i] = 0
            THEN /\ match_map[i][s] = -1
                 /\ match_map[i][s] # Pow2(container.dtype.bits) - 1
            ELSE match_map[i][s] = Raw[s][i] - 1

(* C2: a run fails with the candidate-count assertion exactly when the     *)
(* number of files matching the glob is not one; in that case no container *)
(* was opened and no output artifact was created or modified.              *)
CandidatesAtStart ==
    Glob(dir \cup {FileOf(a) : a \in {x \in Artifacts : pre[x].exists}})
AmbiguityFailure == pc = "failed" /\ err.exc = "AssertionError"

C2_AmbiguityIffNotOne ==
    pc # "start" =>
        /\ AmbiguityFailure <=> Cardinality(CandidatesAtStart) # 1
        /\ AmbiguityFailure => (file = "none" /\ log = <<>> /\ out = pre)

C2_Witness ==
    /\ AmbiguityFailure
    /\ Cardinality(CandidatesAtStart) = 2
    /\ pre = StaleOutputs

(* C3: when a run that opened the container ends (normally or by an        *)
(* exception), the container handle has been released.                     *)
C3_HandleReleased ==
    (pc \in {"done", "failed"} /\ \E n \in DOMAIN log : log[n] = Ev("open")) =>
        file = "closed"

(* C4: the footprint and centroid sequences have one entry per session,    *)
(* and entry k of each, like column k of the match map, comes from session *)
(* k of the container: the k-th reference of its row, the k-th raw row.    *)
C4_SessionOrder ==
    Built =>
        /\ Len(footprints) = NumSessions
        /\ Len(centroids) = NumSessions
        /\ \A k \in 1..NumSessions :
              LET fp == container.objects[FpRefs[k]]
                  ct == container.objects[CtRefs[k]]
              IN  /\ \A i \in 1..Len(fp) : \A j \in 1..Len(fp[1]) :
                        \A c \in 1..Len(fp[1][1]) :
                            footprints[k][c][i][j] = fp[i][j][c]
                  /\ \A r \in 1..Len(ct) : \A c \in 1..Len(ct[1]) :
                        centroids[k][c][r] = ct[r][c]
                  /\ \A i \in 1..NumCells :
                        /\ Len(match_map[i]) = NumSessions
                        /\ Raw[k][i] > 0 => match_map[i][k] = Raw[k][i] - 1

C4_Witness ==
    /\ Built
    /\ NumSessions >= 2
    /\ FpRefs[1] > FpRefs[2]
    /\ Len(footprints[1]) # Len(footprints[2])
    /\ \E i \in 1..NumCells : Raw[1][i] > 0 /\ Raw[1][i] # Raw[2][i]

(* C5: a raw (H, W, N) footprint stack is assembled into an (N, H, W) one  *)
(* whose element [c][h][w] is the raw element [h][w][c] narrowed to        *)
(* float32: a float32 value, at most half a unit in the last place away;   *)
(* a raw (50, 60, 12) stack gives a (12, 50, 60) one.                      *)
IsFloat32(x) ==
    \/ x < Pow2(F32Precision)
    \/ x < Pow2(F32Precision + 1) /\ x % 2 = 0
    \/ x % 4 = 0
HalfUlp(x) == IF x < Pow2(F32Precision) THEN 0 ELSE 1

C5_FootprintAxes ==
    Built =>
        /\ container.objects[FpRefs[1]] = ScenarioStack =>
              /\ Len(footprints[1]) = 12
              /\ Len(footprints[1][1]) = 50
              /\ Len(footprints[1][1][1]) = 60
        /\ \A k \in 1..Len(FpRefs) :
               LET raw == container.objects[FpRefs[k]]
                   H == Len(raw)
                   W == Len(raw[1])
                   N == Len(raw[1][1])
               IN  /\ Len(footprints[k]) = N
                   /\ \A c \in 1..N :
                         /\ Len(footprints[k][c]) = H
                         /\ \A h \in 1..H :
                               /\ Len(footprints[k][c][h]) = W
                               /\ \A w \in 1..W :
                                     /\ IsFloat32(footprints[k][c][h][w])
                                     /\ Abs(footprints[k][c][h][w] - raw[h][w][c])
                                           <= HalfUlp(raw[h][w][c])

C5_Witness ==
    /\ Built
    /\ LET raw == container.objects[FpRefs[1]]
       IN  /\ Len(raw) = 1
           /\ Len(raw[1]) = 2
           /\ Len(raw[1][1]) = 2
           /\ raw[1][1][2] # raw[1][2][1]
           /\ footprints[1][2][1][1] # raw[1][1][2]

(* C6: in every match map a run builds, each entry [i][s] is -1 or lies in *)
(* [0, local_count(s) - 1], local_count(s) being the number of cells of    *)
(* session s's assembled footprint, and the non-sentinel entries of a      *)
(* column are pairwise distinct.                                           *)
LocalCount(s) == Len(footprints[s])

C6_EntriesInRange ==
    Built =>
        \A s \in 1..NumSessions :
            /\ \A i \in 1..NumCells :
                  \/ match_map[i][s] = -1
                  \/ match_map[i][s] \in 0..(LocalCount(s) - 1)
            /\ \A i, j \in 1..NumCells :
                  (i # j /\ match_map[i][s] # -1) => match_map[i][s] # match_map[j][s]

(* C6 as amended: the builder checks nothing, so the property is the raw   *)
(* map's, carried over.  If every raw entry of row s lies in               *)
(* [0, local_count(s)] and the non-zero entries of a row are pairwise      *)
(* distinct, then every entry [i][s] made from a non-zero raw entry lies   *)
(* in [0, local_count(s) - 1] and these entries are pairwise distinct      *)
(* within column s.                                                        *)
WellFormedRaw ==
    \A s \in 1..NumSessions :
        /\ \A i \in 1..NumCells : Raw[s][i] \in 0..LocalCount(s)
        /\ \A i, j \in 1..NumCells :
              (i # j /\ Raw[s][i] # 0) => Raw[s][i] # Raw[s][j]

C6_WellFormedCarriedOver ==
    (Built /\ WellFormedRaw) =>
        \A s \in 1..NumSessions :
            /\ \A i \in 1..NumCells :
                  Raw[s][i] # 0 => match_map[i][s] \in 0..(LocalCount(s) - 1)
            /\ \A i, j \in 1..NumCells :
                  (i # j /\ Raw[s][i] # 0 /\ Raw[s][j] # 0) =>
                      match_map[i][s] # match_map[j][s]

C6_Witness ==
    /\ Built
    /\ WellFormedRaw
    /\ NumSessions >= 2
    /\ NumCells >= 2
    /\ LocalCount(1) # LocalCount(2)
    /\ \A s \in 1..NumSessions : \E i \in 1..NumCells : Raw[s][i] # 0
    /\ \E i \in 1..NumCells : Raw[2][i] = LocalCount(2)
    /\ \E i, j \in 1..NumCells : Raw[1][i] # 0 /\ Raw[1][j] # 0 /\ i # j

(* C7: a second run on the unchanged directory, after a first that ended   *)
(* normally, cannot fail on its inputs and, ending normally, leaves the    *)
(* three artifacts exactly as the first run left them (overwritten, not    *)
(* merged into); the artifacts never add to the files the glob matches.    *)
C7_Idempotent ==
    /\ Glob(Listing) = Glob(dir)
    /\ (run >= 2 /\ prevOk) =>
          /\ pc = "failed" => err.phase = "write"
          /\ pc = "done" => out = pre

C7_Witness ==
    /\ run = 2
    /\ prevOk
    /\ pc = "done"
    /\ \A a \in Artifacts : out[a].exists /\ Len(out[a].frames) = 1

(* C8: in a run that ends normally the phases come in this order: source   *)
(* opened, match map built, footprints assembled, centroids assembled,     *)
(* source handle released, then the match map, the footprints and the      *)
(* centroids serialized.                                                   *)
C8_PhaseOrder ==
    pc = "done" =>
        log = <<Ev("open"), Ev("match_map"), Ev("footprints"), Ev("centroids"),
                Ev("release"), EvWrite("match_map"), EvWrite("footprints"),
                EvWrite("centroids")>>

(* C9: the artifacts are written in the order match map, footprints,       *)
(* centroids, and when a write fails the run is over with the artifacts    *)
(* before the failing one holding this run's objects and the artifacts     *)
(* after it holding what they held when the run started.                   *)
IsWrite(e) == e.ev = "write"
Written == SelectSeq(log, IsWrite)
ClaimedOrder == <<"match_map", "footprints", "centroids">>
ThisRuns(n) == [exists |-> TRUE, partial |-> FALSE,
                frames |-> <<[protocol |-> 4, obj |-> ObjOf(n)]>>]

C9_NoRollback ==
    /\ \A k \in 1..Len(Written) : Written[k].what = ClaimedOrder[k]
    /\ (pc = "failed" /\ err.phase = "write") =>
          /\ Len(Written) < 3
          /\ \A k \in 1..3 :
                /\ k <= Len(Written) => out[ClaimedOrder[k]] = ThisRuns(ClaimedOrder[k])
                /\ k > Len(Written) + 1 => out[ClaimedOrder[k]] = pre[ClaimedOrder[k]]

C9_Witness ==
    /\ pc = "failed"
    /\ err.phase = "write"
    /\ Len(Written) = 1
    /\ pre = StaleOutputs
    /\ out.footprints = Truncated
    /\ out.centroids = Stale

=============================================================================
